---- MODULE Spec2Model ----
(***************************************************************************)
(* Model of stock_screener_akshare.py: the per-symbol acquisition pipeline *)
(* (process_one, load_local_daily_df, fetch_daily_df), the thread-pool     *)
(* orchestration and the aggregation of main, and the two strategies.      *)
(*                                                                         *)
(* In the model of a run a daily frame is abstracted to its column layout  *)
(* (fmt) and a data id d that stands for its rows, and a strategy is a     *)
(* pure function of d. The pure functions are modelled on their own, on    *)
(* concrete data: evaluate_ma120, weighted_quantile and                    *)
(* evaluate_weekly_chip_breakout on series of bars, normalize_daily_df and *)
(* the CSV round trip on frames of labelled columns and rows of cells.     *)
(***************************************************************************)
EXTENDS Integers, Sequences, FiniteSets, TLC

\* ------------------------------------------------------------------ bounds
MaxTasks == 2
MaxRetry == 2
MaxWorkers == 2
MaxData == 3

DataIds == 0..MaxData
Symbols == 1..(MaxTasks + 1)

STRATEGY_MA120 == "ma120"
STRATEGY_WEEKLY_CHIP_BREAKOUT == "weekly_chip_breakout"
Strategies == {STRATEGY_MA120, STRATEGY_WEEKLY_CHIP_BREAKOUT}

\* ------------------------------------------------------------------ values
\* A file of the cache directory, or a raw frame returned by the provider.
\*   absent    : no file <symbol>.csv
\*   corrupt   : a file pd.read_csv cannot parse
\*   canonical : columns date, open, high, low, close, volume
\*   legacy    : the provider's column names (renamed by the normalizer)
\*   nocols    : a required column is missing
\*   norows    : every row is dropped by the coercion
\*   dupcol    : both spellings of one column are present
\*   mixed     : what two overlapping writes of one file can leave
File(f, x) == [fmt |-> f, d |-> x]
NoFile == File("absent", 0)

NoDf == -1
NoRow == [symbol |-> 0, k1 |-> 0, k2 |-> 0]

VARIABLES
    universe,        \* stock_list: sequence of symbols, one task per entry
    retry,           \* args.retry
    use_local_cache, \* args.use_local_cache
    strategy,        \* resolved strategy
    workers,         \* args.workers
    data_dir,        \* symbol -> File: the cache directory
    dir0,            \* the cache directory as the run found it
    tasks,           \* task id -> state of its process_one call
    main_pc,         \* position of main
    done,            \* main's counter of collected completions
    collected,       \* futures already yielded by as_completed
    rows,            \* main's list of verdict rows, in arrival order
    result_file,     \* [written, table]: the result CSV
    ma,              \* input and output of one evaluate_ma120 call
    call             \* input and output of one call of another pure function

vars == <<universe, retry, use_local_cache, strategy, workers, data_dir, dir0, tasks,
          main_pc, done, collected, rows, result_file, ma, call>>

config == <<universe, retry, use_local_cache, strategy, workers, dir0>>

N == Len(universe)

\* ------------------------------------------------------ series normalizer
\* normalize_daily_df on a frame of layout fmt holding data d: a canonical
\* frame ("ok"), None ("none"), or an exception ("raise": with both spellings
\* of a column the rename yields a duplicate label, work[c] is then a frame
\* and pd.to_datetime / pd.to_numeric raise on it).
normalize_daily_df(raw) ==
    CASE raw.fmt \in {"canonical", "legacy"} -> [st |-> "ok", d |-> raw.d]
      [] raw.fmt = "nocols" -> [st |-> "none", d |-> NoDf]
      [] raw.fmt = "norows" -> [st |-> "none", d |-> NoDf]
      [] raw.fmt = "dupcol" -> [st |-> "raise", d |-> NoDf]

\* load_local_daily_df: a read_csv failure is caught and gives None; the
\* normalizer runs outside the try.
load_local_daily_df(file) ==
    IF file.fmt = "corrupt"
    THEN [st |-> "none", d |-> NoDf]
    ELSE normalize_daily_df(file)

\* ------------------------------------------------------- fetch with retry
\* What ak.stock_zh_a_hist can do on one call: raise, return None or an
\* empty frame, or return a frame.
ProviderOutcomes ==
    {[kind |-> "raise", frame |-> NoFile], [kind |-> "empty", frame |-> NoFile]}
    \cup {[kind |-> "frame", frame |-> File("legacy", x)] : x \in DataIds}
    \cup {[kind |-> "frame", frame |-> File(f, 0)] : f \in {"nocols", "norows", "dupcol"}}

\* fetch_try with an exception of the normalizer taken as unusable data
fetch_try_raise_is_unusable(o) ==
    IF o.kind = "raise" THEN [st |-> "except", d |-> NoDf]
    ELSE IF o.kind = "empty" THEN [st |-> "none", d |-> NoDf]
    ELSE LET n == normalize_daily_df(o.frame)
         IN IF n.st = "raise" THEN [st |-> "none", d |-> NoDf] ELSE n

\* fetch_try with an empty provider result sent to the except clause
fetch_try_empty_raises(o) ==
    IF o.kind \in {"raise", "empty"} THEN [st |-> "except", d |-> NoDf]
    ELSE LET n == normalize_daily_df(o.frame)
         IN IF n.st = "raise" THEN [st |-> "except", d |-> NoDf] ELSE n

\* The body of the try block of fetch_daily_df for one provider outcome:
\* "except" when the except clause is entered, else the value returned.
fetch_try(o) ==
    IF o.kind = "raise" THEN [st |-> "except", d |-> NoDf]
    ELSE IF o.kind = "empty" THEN [st |-> "none", d |-> NoDf]
    ELSE LET n == normalize_daily_df(o.frame)
         IN IF n.st = "raise" THEN [st |-> "except", d |-> NoDf] ELSE n

\* attempts_remain one short, and one long
attempts_remain_short(attempt) == attempt < retry
attempts_remain_long(attempt) == attempt <= retry + 1

\* The except clause's test `attempt <= retry`.
attempts_remain(attempt) == attempt <= retry

\* ------------------------------------------------------------- strategies
\* The sort keys of the verdict a strategy gives for data d; data 0 stands
\* for every series the strategy rejects.
K1(x) == (x + 1) \div 2
K2(x) == 2 - (x % 2)
Accepts(x) == x > 0
Details(sym, x) ==
    IF Accepts(x) THEN [symbol |-> sym, k1 |-> K1(x), k2 |-> K2(x)] ELSE NoRow

\* ------------------------------------------------------ ma120 strategy
\* rolling(120) window and the 0.88 discount, as the fraction 88/100
Window == 120
DiscountNum == 88
DiscountDen == 100

\* The sum of a sequence, by halves
RECURSIVE SumSeq(_)
SumSeq(q) ==
    IF q = <<>> THEN 0
    ELSE IF Len(q) = 1 THEN q[1]
    ELSE LET h == Len(q) \div 2
         IN SumSeq(SubSeq(q, 1, h)) + SumSeq(SubSeq(q, h + 1, Len(q)))

\* work["close"].rolling(120).mean() at index i (1-based): NaN until 120
\* closes are in the window, then the mean of closes[i-119..i], kept as the
\* exact fraction sum/120.
rolling_mean(closes, i) ==
    IF i < Window
    THEN [nan |-> TRUE, sum |-> 0]
    ELSE [nan |-> FALSE, sum |-> SumSeq(SubSeq(closes, i - Window + 1, i))]

\* pd.notna(pe_dynamic) and pe_dynamic > 0 and pe_dynamic < max_pe
pe_ok(pe, max_pe) == pe.present /\ pe.v > 0 /\ pe.v < max_pe

\* below_discount that lets the boundary through
below_discount_inclusive(latest_price, ma120) ==
    latest_price * Window * DiscountDen <= ma120.sum * DiscountNum

\* latest_price < ma120 * 0.88, in exact arithmetic
below_discount(latest_price, ma120) ==
    latest_price * Window * DiscountDen < ma120.sum * DiscountNum

\* evaluate_ma120: "accept" when a details dict is returned, else "reject"
evaluate_ma120(closes, pe, max_pe) ==
    LET ma120 == rolling_mean(closes, Len(closes))
        latest_price == closes[Len(closes)]
    IN IF ma120.nan THEN "reject"
       ELSE IF ~pe_ok(pe, max_pe) THEN "reject"
       ELSE IF ~below_discount(latest_price, ma120) THEN "reject"
       ELSE "accept"

\* ------------------------------------------------------------ process_one
\* The state of one process_one call. pc, attempt, df and result are the
\* call's position and locals; the rest records what it did: calls and
\* sleeps count the provider calls and the back-off sleeps, seen is what the
\* cache check found, last is what the latest provider call did, wrote and
\* evals count the cache writes and the strategy evaluations.
NewTask == [pc |-> "new", attempt |-> 0, calls |-> 0, sleeps |-> 0, df |-> NoDf,
            seen |-> "unchecked", last |-> "none", wrote |-> 0, evals |-> 0,
            result |-> NoRow]

Terminal(t) == tasks[t].pc \in {"done", "raised"}
Running(t) == tasks[t].pc \in {"cache", "fetch", "sleep", "persist", "eval"}

\* `if df is None or df.empty` before the fetch
needs_fetch(df) == df = NoDf

\* after_ready with the cache write left out
after_ready_no_write == "eval"

\* Where process_one goes once it holds a usable frame: the cache write,
\* then the strategy.
after_ready == "persist"

\* A pool thread takes the next work item off the FIFO queue.
StartTask(t) ==
    /\ tasks[t].pc = "queued"
    /\ \A u \in 1..(t - 1) : tasks[u].pc # "queued"
    /\ Cardinality({u \in 1..N : Running(u)}) < workers
    /\ tasks' = [tasks EXCEPT ![t].pc = "cache"]
    /\ UNCHANGED <<config, data_dir, main_pc, done, collected, rows, result_file, ma, call>>

\* Another task of the run is inside df.to_csv on the file of task t: the
\* universe list is not deduplicated, and nothing orders the accesses of two
\* tasks to one file.
torn(t) == \E u \in 1..N : u # t /\ universe[u] = universe[t] /\ tasks[u].pc = "persist"

\* What reading the file gives: load_local_daily_df of the file, or, while
\* another task is writing it or after two writes of it have overlapped, a
\* file that does not exist yet, that cannot be read, or that holds some of
\* the rows written.
read_outcomes(t) ==
    LET file == data_dir[universe[t]]
        part == {[st |-> "none", d |-> NoDf, obs |-> "torn"]}
                \cup {[st |-> "ok", d |-> x, obs |-> "torn"] : x \in DataIds}
    IN IF file.fmt = "mixed" THEN part
       ELSE LET whole == IF file.fmt = "absent"
                         THEN [st |-> "none", d |-> NoDf, obs |-> "absent"]
                         ELSE load_local_daily_df(file) @@ [obs |-> file.fmt]
            IN IF torn(t) THEN {whole} \cup part ELSE {whole}

\* What df.to_csv(out_file) leaves: the frame in canonical form; when the
\* write overlaps the write of another task to the same file, possibly a
\* mix of the two texts.
write_outcomes(t) ==
    IF torn(t) \/ data_dir[universe[t]].fmt = "mixed"
    THEN {File("canonical", tasks[t].df), File("mixed", 0)}
    ELSE {File("canonical", tasks[t].df)}

\* out_file.exists() and load_local_daily_df, then the test before the fetch
CacheCheck(t) ==
    /\ tasks[t].pc = "cache"
    /\ \E r \in IF use_local_cache THEN read_outcomes(t)
                 ELSE {[st |-> "none", d |-> NoDf, obs |-> "skipped"]} :
         tasks' = [tasks EXCEPT ![t] =
              IF r.st = "raise"
              THEN [@ EXCEPT !.pc = "raised", !.seen = r.obs]
              ELSE IF needs_fetch(r.d)
              THEN [@ EXCEPT !.pc = "fetch", !.seen = r.obs, !.attempt = 1]
              ELSE [@ EXCEPT !.pc = after_ready, !.seen = r.obs, !.df = r.d]]
    /\ UNCHANGED <<config, data_dir, main_pc, done, collected, rows, result_file, ma, call>>

\* One pass of the loop of fetch_daily_df: the provider call, the
\* normalization, and the except clause.
FetchCall(t) ==
    /\ tasks[t].pc = "fetch"
    /\ \E o \in ProviderOutcomes :
         LET r == fetch_try(o)
             a == tasks[t].attempt
             what == IF o.kind = "frame" THEN o.frame.fmt ELSE o.kind
         IN tasks' = [tasks EXCEPT ![t] =
                IF r.st = "except"
                THEN IF attempts_remain(a)
                     THEN [@ EXCEPT !.pc = "sleep", !.calls = @ + 1, !.last = what]
                     ELSE [@ EXCEPT !.pc = "done", !.calls = @ + 1, !.last = what]
                ELSE IF r.st = "none"
                THEN [@ EXCEPT !.pc = "done", !.calls = @ + 1, !.last = what]
                ELSE [@ EXCEPT !.pc = after_ready, !.calls = @ + 1, !.last = what,
                               !.df = r.d]]
    /\ UNCHANGED <<config, data_dir, main_pc, done, collected, rows, result_file, ma, call>>

\* time.sleep(sleep_sec); continue
Sleep(t) ==
    /\ tasks[t].pc = "sleep"
    /\ tasks' = [tasks EXCEPT ![t] = [@ EXCEPT !.pc = "fetch", !.sleeps = @ + 1,
                                                 !.attempt = @ + 1]]
    /\ UNCHANGED <<config, data_dir, main_pc, done, collected, rows, result_file, ma, call>>

\* Persist with the file left untouched
Persist_no_file(t) ==
    /\ tasks[t].pc = "persist"
    /\ tasks' = [tasks EXCEPT ![t] = [@ EXCEPT !.pc = "eval", !.wrote = @ + 1]]
    /\ UNCHANGED <<config, data_dir, main_pc, done, collected, rows, result_file, ma, call>>

\* df.to_csv(out_file): the whole file is rewritten
Persist(t) ==
    /\ tasks[t].pc = "persist"
    /\ \E f \in write_outcomes(t) : data_dir' = [data_dir EXCEPT ![universe[t]] = f]
    /\ tasks' = [tasks EXCEPT ![t] = [@ EXCEPT !.pc = "eval", !.wrote = @ + 1]]
    /\ UNCHANGED <<config, main_pc, done, collected, rows, result_file, ma, call>>

\* Evaluate that writes the cache file once more
Evaluate_writes_again(t) ==
    /\ tasks[t].pc = "eval"
    /\ data_dir' = [data_dir EXCEPT ![universe[t]] = File("canonical", tasks[t].df)]
    /\ tasks' = [tasks EXCEPT ![t] = [@ EXCEPT !.pc = "done", !.evals = @ + 1,
                      !.wrote = @ + 1,
                      !.result = Details(universe[t], tasks[t].df)]]
    /\ UNCHANGED <<config, main_pc, done, collected, rows, result_file, ma, call>>

\* The strategy call and the construction of the result
Evaluate(t) ==
    /\ tasks[t].pc = "eval"
    /\ tasks' = [tasks EXCEPT ![t] = [@ EXCEPT !.pc = "done", !.evals = @ + 1,
                      !.result = Details(universe[t], tasks[t].df)]]
    /\ UNCHANGED <<config, data_dir, main_pc, done, collected, rows, result_file, ma, call>>

\* ------------------------------------------------------------------- main
\* Before with the ma120 order used for both strategies
Before_ascending(a, b) == a.k1 < b.k1 \/ (a.k1 = b.k1 /\ a.k2 < b.k2)

\* The order of DataFrame.sort_values for the active strategy: ma120 by
\* price_ma120_ratio then pe_dynamic, both ascending; weekly_chip_breakout
\* by breakout_strength descending then zone_width_ratio ascending.
Before(a, b) ==
    IF strategy = STRATEGY_MA120
    THEN a.k1 < b.k1 \/ (a.k1 = b.k1 /\ a.k2 < b.k2)
    ELSE a.k1 > b.k1 \/ (a.k1 = b.k1 /\ a.k2 < b.k2)

Min(S) == CHOOSE x \in S : \A y \in S : x <= y

\* Insert x behind every row that does not sort after it.
InsertRow(x, s) ==
    LET later == {i \in 1..Len(s) : Before(x, s[i])}
        p == IF later = {} THEN Len(s) + 1 ELSE Min(later)
    IN SubSeq(s, 1, p - 1) \o <<x>> \o SubSeq(s, p, Len(s))

\* sort_values that sorts on the first key alone
RECURSIVE sort_values_first_key(_)
sort_values_first_key(r) ==
    IF r = <<>> THEN <<>>
    ELSE LET x == r[Len(r)]
             s == sort_values_first_key(SubSeq(r, 1, Len(r) - 1))
             later == {i \in 1..Len(s) :
                         IF strategy = STRATEGY_MA120 THEN x.k1 < s[i].k1 ELSE x.k1 > s[i].k1}
             p == IF later = {} THEN Len(s) + 1 ELSE Min(later)
         IN SubSeq(s, 1, p - 1) \o <<x>> \o SubSeq(s, p, Len(s))

\* sort_values on several columns is a stable lexicographic sort: rows equal
\* on both keys keep the order they have in `rows`.
RECURSIVE sort_values(_)
sort_values(r) ==
    IF r = <<>> THEN <<>>
    ELSE InsertRow(r[Len(r)], sort_values(SubSeq(r, 1, Len(r) - 1)))

\* write_result that writes the table also when it is empty
write_result_always(r) == [written |-> TRUE, table |-> sort_values(r)]

\* `if not rows: return` leaves the result file alone; otherwise the sorted
\* table is written.
write_result(r) ==
    IF r = <<>> THEN result_file ELSE [written |-> TRUE, table |-> sort_values(r)]

\* executor.submit for every row of stock_list
Submit ==
    /\ main_pc = "submit"
    /\ main_pc' = "collect"
    /\ tasks' = [t \in 1..N |-> [tasks[t] EXCEPT !.pc = "queued"]]
    /\ UNCHANGED <<config, data_dir, done, collected, rows, result_file, ma, call>>

\* One pass of `for future in as_completed(futures)`: future.result()
\* re-raises what the task raised.
Collect(t) ==
    /\ main_pc = "collect"
    /\ t \notin collected
    /\ Terminal(t)
    /\ collected' = collected \cup {t}
    /\ done' = done + 1
    /\ IF tasks[t].pc = "raised"
       THEN main_pc' = "abort" /\ rows' = rows
       ELSE /\ main_pc' = main_pc
            /\ rows' = IF tasks[t].result # NoRow THEN Append(rows, tasks[t].result) ELSE rows
    /\ UNCHANGED <<config, data_dir, tasks, result_file, ma, call>>

\* After the loop: the empty test, the sort and the write of the result file
Aggregate ==
    /\ main_pc = "collect"
    /\ collected = 1..N
    /\ result_file' = write_result(rows)
    /\ main_pc' = "done"
    /\ UNCHANGED <<config, data_dir, tasks, done, collected, rows, ma, call>>

\* The exception leaves the with block once the pool has shut down, which
\* waits for every submitted task.
Abort ==
    /\ main_pc = "abort"
    /\ \A t \in 1..N : Terminal(t)
    /\ main_pc' = "crashed"
    /\ UNCHANGED <<config, data_dir, tasks, done, collected, rows, result_file, ma, call>>

\* ------------------------------------------------------------------- runs
\* Universe lists up to renaming of symbols: the first symbol is 1 and each
\* entry is an earlier symbol or the next unused one.
RECURSIVE Universes(_)
Universes(n) ==
    IF n = 0 THEN {<<>>}
    ELSE {Append(u, s) : u \in Universes(n - 1),
                         s \in 1..MaxTasks}

Canonical(u) ==
    \A i \in 1..Len(u) : \A s \in 1..(u[i] - 1) : \E j \in 1..(i - 1) : u[j] = s

\* What a cache directory left by earlier runs or by hand can hold for a symbol
InitFiles ==
    {NoFile, File("corrupt", 0), File("nocols", 0), File("norows", 0), File("dupcol", 0),
     File("legacy", 1), File("canonical", 0), File("canonical", 1)}

\* The files a run over several symbols starts from: none, a legacy file
\* the strategy accepts, one the normalizer raises on
RunFiles == {NoFile, File("legacy", 1), File("dupcol", 0)}

NoMa == [closes |-> <<>>, pe |-> 0, max_pe |-> 0, out |-> "none"]
NoCall == [fn |-> "none"]

\* Directories that hold the same kind of file for every symbol of u
Dirs(u, files) ==
    {[s \in Symbols |-> IF \E i \in 1..Len(u) : u[i] = s THEN f ELSE NoFile] : f \in files}

InitWith(universes, files, retries, pools) ==
    /\ universe \in universes
    /\ retry \in retries
    /\ use_local_cache \in BOOLEAN
    /\ strategy \in Strategies
    /\ workers \in pools
    /\ data_dir \in Dirs(universe, files)
    /\ dir0 = data_dir
    /\ tasks = [t \in 1..N |-> NewTask]
    /\ main_pc = "submit"
    /\ done = 0
    /\ collected = {}
    /\ rows = <<>>
    /\ result_file = [written |-> FALSE, table |-> <<>>]
    /\ ma = NoMa
    /\ call = NoCall

\* A run over a universe of up to MaxTasks instruments
Init ==
    InitWith({u \in UNION {Universes(n) : n \in 0..MaxTasks} : Canonical(u)}, RunFiles,
             0..MaxRetry, 1..MaxWorkers)

\* A run over one instrument, from every kind of cache file
InitPipeline == InitWith({<<1>>}, InitFiles, 0..MaxRetry, 1..MaxWorkers)

\* A run over three distinct instruments with one retry and the full pool,
\* from an empty directory or from one of files the normalizer raises on
InitDistinct ==
    InitWith({<<1, 2, 3>>}, {NoFile, File("dupcol", 0)}, {1}, {MaxWorkers})

Next ==
    \/ Submit
    \/ \E t \in 1..N : StartTask(t)
    \/ \E t \in 1..N : CacheCheck(t)
    \/ \E t \in 1..N : FetchCall(t)
    \/ \E t \in 1..N : Sleep(t)
    \/ \E t \in 1..N : Persist(t)
    \/ \E t \in 1..N : Evaluate(t)
    \/ \E t \in 1..N : Collect(t)
    \/ Aggregate
    \/ Abort

Spec == Init /\ [][Next]_vars

SpecPipeline == InitPipeline /\ [][Next]_vars

SpecDistinct == InitDistinct /\ [][Next]_vars

\* ------------------------------------------------- evaluate_ma120 alone
MaxExtra == 1
MaxPeStep == 5

\* A series of n closes: `head` before the last 120 bars, then `base`, and
\* `last` as the latest close.
Closes(n, head, base, last) ==
    [i \in 1..n |-> IF i = n THEN last ELSE IF i > n - Window THEN base ELSE head]

\* pe_map.get(symbol, nan): missing, or a ratio in steps of 5 around 0 and
\* around the ceiling
PeValues ==
    {[present |-> FALSE, v |-> 0]}
    \cup {[present |-> TRUE, v |-> 5 * k] : k \in -1..MaxPeStep}

MaInputs ==
    {[closes |-> Closes(n, head, base, last), pe |-> pe, max_pe |-> max_pe, out |-> "none"] :
        n \in {Window - 1 + k : k \in 0..(MaxExtra + 1)},
        head \in {1, 200},
        base \in {100, 1489},
        last \in {85, 88, 1308, 1309, 1310},
        pe \in PeValues,
        max_pe \in {10, 20}}

InitMa120 ==
    /\ ma \in MaInputs
    /\ universe = <<>>
    /\ retry = 0
    /\ use_local_cache = TRUE
    /\ strategy = STRATEGY_MA120
    /\ workers = 1
    /\ data_dir = [s \in Symbols |-> NoFile]
    /\ dir0 = data_dir
    /\ tasks = <<>>
    /\ main_pc = "strategy"
    /\ done = 0
    /\ collected = {}
    /\ rows = <<>>
    /\ result_file = [written |-> FALSE, table |-> <<>>]
    /\ call = NoCall

\* The state of a program that calls one pure function: no run is under way
\* and `call` holds the function's input and output.
InitCall(calls) ==
    /\ call \in calls
    /\ ma = NoMa
    /\ universe = <<>>
    /\ retry = 0
    /\ use_local_cache = TRUE
    /\ strategy = STRATEGY_WEEKLY_CHIP_BREAKOUT
    /\ workers = 1
    /\ data_dir = [s \in Symbols |-> NoFile]
    /\ dir0 = data_dir
    /\ tasks = <<>>
    /\ main_pc = "strategy"
    /\ done = 0
    /\ collected = {}
    /\ rows = <<>>
    /\ result_file = [written |-> FALSE, table |-> <<>>]

\* One call of evaluate_ma120 on the chosen input
EvalMa120 ==
    /\ main_pc = "strategy"
    /\ ma.out = "none"
    /\ ma' = [ma EXCEPT !.out = evaluate_ma120(ma.closes, ma.pe, ma.max_pe)]
    /\ UNCHANGED <<config, data_dir, tasks, main_pc, done, collected, rows, result_file, call>>

NextMa120 == EvalMa120

SpecMa120 == InitMa120 /\ [][NextMa120]_vars

\* ------------------------------------------------------- weighted_quantile
MaxLen == 3

\* A float cell: a number, or NaN
Num(x) == [k |-> "num", x |-> x]
NaN == [k |-> "nan", x |-> 0]

\* q is kept in hundredths: 0.35 is 35
QScale == 100

\* pd.DataFrame({"v": values, "w": weights}).dropna(), then temp["w"] > 0
positive_rows(values, weights) ==
    LET all == [i \in 1..Len(values) |-> [v |-> values[i], w |-> weights[i]]]
        temp == SelectSeq(all, LAMBDA r : r.v.k = "num" /\ r.w.k = "num")
    IN SelectSeq(temp, LAMBDA r : r.w.x > 0)

\* sort_by_v that leaves the rows as they come
sort_by_v_unsorted(temp) == temp

\* .sort_values("v"): ascending by value. Row i goes behind the rows of
\* smaller value and behind the earlier rows of equal value; the order of
\* rows of equal value does not show in the value weighted_quantile returns.
sort_by_v(temp) ==
    LET n == Len(temp)
        rank == [i \in 1..n |->
                    Cardinality({j \in 1..n : \/ temp[j].v.x < temp[i].v.x
                                              \/ temp[j].v.x = temp[i].v.x /\ j <= i})]
    IN [p \in 1..n |-> temp[CHOOSE i \in 1..n : rank[i] = p]]

\* temp["w"].cumsum() at position i (1-based)
cumsum(temp, i) == SumSeq([j \in 1..i |-> temp[j].w.x])

\* cdf.searchsorted(q, side="left"): the number of entries of the ascending
\* cdf = cumsum / sum that are below q
searchsorted_left(temp, q) ==
    LET total == cumsum(temp, Len(temp))
    IN Cardinality({i \in 1..Len(temp) : cumsum(temp, i) * QScale < q * total})

\* weighted_quantile(values, weights, q), q in hundredths
weighted_quantile(values, weights, q) ==
    LET temp == sort_by_v(positive_rows(values, weights))
    IN IF temp = <<>> THEN NaN
       ELSE LET idx == searchsorted_left(temp, q)
                at == IF idx < Len(temp) - 1 THEN idx ELSE Len(temp) - 1
            IN temp[at + 1].v

\* A value with its weight: weights of 1 and 2, a zero weight, a missing
\* value, a missing weight
QuantileRows ==
    {<<Num(1), Num(1)>>, <<Num(2), Num(1)>>, <<Num(3), Num(1)>>, <<Num(1), Num(2)>>,
     <<Num(3), Num(2)>>, <<Num(2), Num(0)>>, <<NaN, Num(1)>>, <<Num(2), NaN>>}

RECURSIVE CellSeqs(_, _)
CellSeqs(n, cells) ==
    IF n = 0 THEN {<<>>}
    ELSE {Append(s, c) : s \in CellSeqs(n - 1, cells), c \in cells}

\* Series of up to m values and weights, and two levels q1 <= q2
QuantileInputs(m) ==
    {[fn |-> "weighted_quantile",
      values |-> [i \in 1..Len(r) |-> r[i][1]],
      weights |-> [i \in 1..Len(r) |-> r[i][2]],
      q |-> q, called |-> <<FALSE, FALSE>>, out |-> <<NaN, NaN>>] :
        r \in UNION {CellSeqs(n, QuantileRows) : n \in 0..m},
        q \in {p \in {0, 35, 65, 100} \X {0, 35, 65, 100} : p[1] <= p[2]}}

InitQuantile == InitCall(QuantileInputs(MaxLen))

\* One call of weighted_quantile, at the first or at the second level
CallQuantile(i) ==
    /\ call.fn = "weighted_quantile"
    /\ ~call.called[i]
    /\ call' = [call EXCEPT !.called[i] = TRUE,
                            !.out[i] = weighted_quantile(call.values, call.weights, call.q[i])]
    /\ UNCHANGED <<config, data_dir, tasks, main_pc, done, collected, rows, result_file, ma>>

NextQuantile == \E i \in 1..2 : CallQuantile(i)

SpecQuantile == InitQuantile /\ [][NextQuantile]_vars

\* ------------------------------------------- weekly_chip_breakout strategy
\* A daily bar carries the index of the week (ending Friday) its date falls
\* in; a series is ascending by date, so its week indices do not decrease.
Bar(w, o, h, l, c, v) ==
    [week |-> w, open |-> o, high |-> h, low |-> l, close |-> c, volume |-> v]

\* The thresholds of evaluate_weekly_chip_breakout; fractions in hundredths
MinWeeks == 60
BaseFrom == 52
BaseTo == 4
MinBase == 30
ZoneLowQ == 35
ZoneHighQ == 65
MaxWidth == 18
MinConcentration == 40
PreFrom == 14
PreTo == 1
MinPre == 8
TouchTol == 2
CloseCap == 101
MinAttempts == 2
MaxAttempts == 3

\* The agg of one weekly bin from two consecutive parts of it
agg(x, y) ==
    Bar(x.week, x.open, IF x.high >= y.high THEN x.high ELSE y.high,
        IF x.low <= y.low THEN x.low ELSE y.low, y.close, x.volume + y.volume)

\* resample("W-FRI").agg(...).dropna(...): one bar per week that holds a
\* daily bar (open first, high max, low min, close last, volume sum); the
\* bins without a daily bar have no close and are dropped. By halves.
RECURSIVE resample(_)
resample(df) ==
    IF Len(df) <= 1 THEN df
    ELSE LET h == Len(df) \div 2
             a == resample(SubSeq(df, 1, h))
             b == resample(SubSeq(df, h + 1, Len(df)))
         IN IF a[Len(a)].week = b[1].week
            THEN SubSeq(a, 1, Len(a) - 1) \o <<agg(a[Len(a)], b[1])>> \o Tail(b)
            ELSE a \o b

\* weekly.iloc[-from:-to], as positions of weekly (1-based)
iloc(weekly, from, to) ==
    LET n == Len(weekly)
        lo == IF n - from + 1 < 1 THEN 1 ELSE n - from + 1
    IN SubSeq(weekly, lo, n - to)

\* zone_width_ratio <= 0.18 and volume_concentration >= 0.40 on the base
\* window, with mean_price = sum of closes / len(base)
chips_concentrated(base, zone_low, zone_high) ==
    LET closes == SumSeq([i \in 1..Len(base) |-> base[i].close])
        total == SumSeq([i \in 1..Len(base) |-> base[i].volume])
        in_zone == SumSeq([i \in 1..Len(base) |->
                      IF base[i].close >= zone_low /\ base[i].close <= zone_high
                      THEN base[i].volume ELSE 0])
    IN /\ closes > 0
       /\ (zone_high - zone_low) * QScale * Len(base) <= MaxWidth * closes
       /\ total > 0
       /\ in_zone * QScale >= MinConcentration * total

\* attempt_mask.sum(): the bars of pre_break with
\* high >= zone_high * (1 - touch_tol) and close <= zone_high * 1.01
count_attempts(pre_break, zone_high) ==
    Cardinality({i \in 1..Len(pre_break) :
        /\ pre_break[i].high * QScale >= zone_high * (QScale - TouchTol)
        /\ pre_break[i].close * QScale <= zone_high * CloseCap})

\* attempts_ok without the upper limit
attempts_ok_no_limit(attempts) == MinAttempts <= attempts

\* 2 <= attempts <= 3
attempts_ok(attempts) == MinAttempts <= attempts /\ attempts <= MaxAttempts

\* breakout that does not look at the week before
breakout_latest_only(latest, prev, zone_high) ==
    /\ latest.close * QScale > zone_high * CloseCap
    /\ latest.high > zone_high

\* latest close > zone_high * 1.01 and latest high > zone_high and
\* prev close <= zone_high * 1.01
breakout(latest, prev, zone_high) ==
    /\ latest.close * QScale > zone_high * CloseCap
    /\ latest.high > zone_high
    /\ prev.close * QScale <= zone_high * CloseCap

Reject == [st |-> "reject", attempts |-> 0, chip_zone_low |-> 0, chip_zone_high |-> 0]

\* evaluate_weekly_chip_breakout: None ("reject"), or the details
evaluate_weekly_chip_breakout(df) ==
    LET weekly == resample(df)
        base == iloc(weekly, BaseFrom, BaseTo)
        values == [i \in 1..Len(base) |-> Num(base[i].close)]
        weights == [i \in 1..Len(base) |-> Num(base[i].volume)]
        zone_low == weighted_quantile(values, weights, ZoneLowQ)
        zone_high == weighted_quantile(values, weights, ZoneHighQ)
        pre_break == iloc(weekly, PreFrom, PreTo)
        attempts == count_attempts(pre_break, zone_high.x)
    IN IF Len(weekly) < MinWeeks THEN Reject
       ELSE IF Len(base) < MinBase THEN Reject
       ELSE IF zone_low.k = "nan" \/ zone_high.k = "nan" \/ zone_high.x <= zone_low.x
       THEN Reject
       ELSE IF ~chips_concentrated(base, zone_low.x, zone_high.x) THEN Reject
       ELSE IF Len(pre_break) < MinPre THEN Reject
       ELSE IF ~attempts_ok(attempts) THEN Reject
       ELSE IF ~breakout(weekly[Len(weekly)], weekly[Len(weekly) - 1], zone_high.x)
       THEN Reject
       ELSE [st |-> "accept", attempts |-> attempts, chip_zone_low |-> zone_low.x,
             chip_zone_high |-> zone_high.x]

\* --------------------------------- evaluate_weekly_chip_breakout alone
MaxTouch == 5

\* A daily series of n weeks. The weekly closes are 100, except on every
\* other week of the part of the base window before the last 13 weeks, where
\* they are `top`; so the chip zone is [100, top]. The k weeks from position
\* n-13+off on reach a high of 102, the week before the latest closes at pc
\* and the latest week closes at lc with a high of lh. A week has dpw daily
\* bars, and with `gap` one calendar week has no bar at all.
WeekClose(i, n, p) ==
    IF i = n THEN p.lc
    ELSE IF i = n - 1 THEN p.pc
    ELSE IF i >= n - BaseFrom + 1 /\ i <= n - PreFrom /\ i % 2 = 0 THEN p.top
    ELSE 100

WeekHigh(i, n, p) ==
    LET c == WeekClose(i, n, p)
    IN IF i = n THEN p.lh
       ELSE IF i >= n - PreFrom + 1 + p.off /\ i < n - PreFrom + 1 + p.off + p.k /\ c < 102
       THEN 102
       ELSE c

DailySeries(n, p) ==
    [j \in 1..(n * p.dpw) |->
        LET i == (j - 1) \div p.dpw + 1
            w == IF p.gap /\ i > 30 THEN i + 1 ELSE i
            c == WeekClose(i, n, p)
            h == WeekHigh(i, n, p)
        IN IF j % p.dpw = 0
           THEN Bar(w, c, h, c, c, 1)
           ELSE Bar(w, c - 1, h, c - 1, c - 1, 1)]

\* Series of up to k touching weeks
WeeklyInputs(k) ==
    {[fn |-> "evaluate_weekly_chip_breakout", df |-> DailySeries(n, p), called |-> FALSE,
      out |-> Reject] :
        n \in {MinWeeks - 1 + x : x \in 0..(MaxExtra + 1)},
        p \in {x \in [k : 0..k, off : {0, 8}, lc : {105, 106}, lh : {104, 106},
                       pc : {100, 106}, top : {104, 130}, dpw : {1, 2}, gap : BOOLEAN] :
                  x.gap => x.dpw = 1}}

InitWeekly == InitCall(WeeklyInputs(MaxTouch))

\* One call of evaluate_weekly_chip_breakout on the chosen series
EvalWeekly ==
    /\ call.fn = "evaluate_weekly_chip_breakout"
    /\ ~call.called
    /\ call' = [call EXCEPT !.called = TRUE, !.out = evaluate_weekly_chip_breakout(call.df)]
    /\ UNCHANGED <<config, data_dir, tasks, main_pc, done, collected, rows, result_file, ma>>

NextWeekly == EvalWeekly

SpecWeekly == InitWeekly /\ [][NextWeekly]_vars

\* ------------------------------------------- frames, rows and CSV files
MaxRows == 2

\* A frame is a sequence of column labels and a sequence of rows, a row
\* being the sequence of its cells in column order. Besides Num and NaN a
\* cell is a timestamp, or a string: the text of a number, the ISO text of a
\* date, or a text that is neither.
Date(x) == [k |-> "date", x |-> x]
NumStr(x) == [k |-> "numstr", x |-> x]
DateStr(x) == [k |-> "datestr", x |-> x]
Junk == [k |-> "junk", x |-> 0]
Frame(cols, rs) == [cols |-> cols, rows |-> rs]

keep_cols == <<"date", "open", "high", "low", "close", "volume">>
required == {"date", "close", "high", "low", "volume"}

\* The provider's labels are written riqi, kaipan, zuigao, zuidi, shoupan
\* and chengjiaoliang here.
rename(c) ==
    CASE c = "riqi" -> "date"
      [] c = "shoupan" -> "close"
      [] c = "kaipan" -> "open"
      [] c = "zuigao" -> "high"
      [] c = "zuidi" -> "low"
      [] c = "chengjiaoliang" -> "volume"
      [] OTHER -> c

Labels(cols) == {cols[i] : i \in 1..Len(cols)}
Positions(cols, c) == {i \in 1..Len(cols) : cols[i] = c}

\* to_datetime that does not read the ISO text of a date
to_datetime_no_text(cell) ==
    CASE cell.k = "date" -> cell
      [] cell.k \in {"datestr", "junk", "nan"} -> NaN

\* pd.to_datetime(..., errors="coerce") on one cell
to_datetime(cell) ==
    CASE cell.k = "date" -> cell
      [] cell.k = "datestr" -> Date(cell.x)
      [] cell.k \in {"junk", "nan"} -> NaN

\* pd.to_numeric(..., errors="coerce") on one cell
to_numeric(cell) ==
    CASE cell.k = "num" -> cell
      [] cell.k = "numstr" -> Num(cell.x)
      [] cell.k \in {"datestr", "junk", "nan"} -> NaN

\* dropna that keeps every row
dropna_keep_all(rs) == rs

\* dropna(subset=keep_cols)
dropna(rs) == SelectSeq(rs, LAMBDA r : \A i \in 1..Len(r) : r[i].k # "nan")

\* sort_values("date") with the default kind (quicksort, not stable): any
\* order of the rows that ascends by date; rows of one date may come out in
\* any order.
sort_values_date(rs) ==
    LET n == Len(rs)
        perms == {p \in [1..n -> 1..n] :
                     /\ \A i, j \in 1..n : i # j => p[i] # p[j]
                     /\ \A i, j \in 1..n : i < j => rs[p[i]][1].x <= rs[p[j]][1].x}
    IN {[i \in 1..n |-> rs[p[i]]] : p \in perms}

\* normalize_daily_df up to the sort: "none" for None, "raise" when a kept
\* label occurs twice after the rename (work[c] is then a frame and
\* pd.to_datetime / pd.to_numeric raise), else the coerced rows without
\* missing fields, in the order of df.
normalize_rows(df) ==
    LET cols == [i \in 1..Len(df.cols) |-> rename(df.cols[i])]
        fill == "open" \notin Labels(cols)
        at(c) == IF c = "open" /\ fill THEN Min(Positions(cols, "close"))
                 ELSE Min(Positions(cols, c))
        twice(c) == Cardinality(Positions(cols, IF c = "open" /\ fill THEN "close" ELSE c)) > 1
        pick(r) == [i \in 1..Len(keep_cols) |->
                       IF i = 1 THEN to_datetime(r[at(keep_cols[i])])
                       ELSE to_numeric(r[at(keep_cols[i])])]
        work == dropna([i \in 1..Len(df.rows) |-> pick(df.rows[i])])
    IN IF ~(required \subseteq Labels(cols)) THEN [st |-> "none", rows |-> <<>>]
       ELSE IF \E i \in 1..Len(keep_cols) : twice(keep_cols[i])
       THEN [st |-> "raise", rows |-> <<>>]
       ELSE IF work = <<>> THEN [st |-> "none", rows |-> <<>>]
       ELSE [st |-> "ok", rows |-> work]

\* The outcomes of normalize_daily_df on a frame
normalize_outcomes(df) ==
    LET r == normalize_rows(df)
    IN IF r.st = "ok"
       THEN {[st |-> "ok", df |-> Frame(keep_cols, s)] : s \in sort_values_date(r.rows)}
       ELSE {[st |-> r.st, df |-> Frame(<<>>, <<>>)]}

\* df.to_csv(out_file, index=False): the labels, then every cell as text (a
\* timestamp in ISO form, a missing value as the empty field)
to_text(cell) ==
    CASE cell.k = "date" -> DateStr(cell.x)
      [] cell.k = "num" -> NumStr(cell.x)
      [] OTHER -> cell
to_csv(df) ==
    Frame(df.cols, [i \in 1..Len(df.rows) |->
                       [j \in 1..Len(df.rows[i]) |-> to_text(df.rows[i][j])]])

\* pd.read_csv: a column whose fields are all numbers or empty becomes
\* numeric, any other column stays text; an empty field is missing.
read_csv(file) ==
    LET numeric(j) == \A i \in 1..Len(file.rows) : file.rows[i][j].k \in {"numstr", "nan"}
    IN Frame(file.cols, [i \in 1..Len(file.rows) |->
                           [j \in 1..Len(file.rows[i]) |->
                               LET c == file.rows[i][j]
                               IN IF c.k = "numstr" /\ numeric(j) THEN Num(c.x) ELSE c]])

\* ------------------------------- one symbol's cache file over several runs
\* The cache file of a symbol: absent, unreadable, or a CSV text
NoFrame == Frame(<<>>, <<>>)
AbsentCsv == [kind |-> "absent", data |-> NoFrame]
CorruptCsv == [kind |-> "corrupt", data |-> NoFrame]
Csv(df) == [kind |-> "csv", data |-> df]

\* A row in the order of keep_cols: a date cell, and the price and volume
\* cells of one of four kinds
RowOf(d, v) ==
    CASE v = "num" -> <<d, Num(10), Num(12), Num(9), Num(11), Num(500)>>
      [] v = "numstr" -> <<d, NumStr(20), NumStr(22), NumStr(19), NumStr(21), NumStr(700)>>
      [] v = "noclose" -> <<d, Num(10), Num(12), Num(9), NaN, Num(500)>>
      [] v = "badvolume" -> <<d, Num(30), Num(32), Num(29), Num(31), Junk>>

RowKinds == {RowOf(d, v) : d \in {Date(1), Date(2), Junk},
                           v \in {"num", "numstr", "noclose", "badvolume"}}

\* The column layouts: canonical; the provider's labels in the provider's
\* order with one more column; the same without the open column; no volume
\* column; both spellings of the date column
Layouts == {"canonical", "legacy", "noopen", "novolume", "dupdate"}

LayoutFrame(layout, rs) ==
    CASE layout = "canonical" -> Frame(keep_cols, rs)
      [] layout = "legacy" ->
            Frame(<<"riqi", "kaipan", "shoupan", "zuigao", "zuidi", "chengjiaoliang", "chengjiaoe">>,
                  [i \in 1..Len(rs) |->
                     <<rs[i][1], rs[i][2], rs[i][5], rs[i][3], rs[i][4], rs[i][6], Num(0)>>])
      [] layout = "noopen" ->
            Frame(<<"riqi", "shoupan", "zuigao", "zuidi", "chengjiaoliang">>,
                  [i \in 1..Len(rs) |-> <<rs[i][1], rs[i][5], rs[i][3], rs[i][4], rs[i][6]>>])
      [] layout = "novolume" ->
            Frame(<<"date", "open", "high", "low", "close">>,
                  [i \in 1..Len(rs) |-> SubSeq(rs[i], 1, 5)])
      [] layout = "dupdate" ->
            Frame(<<"riqi">> \o keep_cols, [i \in 1..Len(rs) |-> <<rs[i][1]>> \o rs[i]])

\* The frames of up to m rows
RawFrames(m) ==
    {LayoutFrame(layout, rs) :
        layout \in Layouts, rs \in UNION {CellSeqs(n, RowKinds) : n \in 0..m}}

\* What the provider returns for the symbol when the file decides the run:
\* nothing, or two good rows, the later date first
FewFeeds ==
    {LayoutFrame("legacy", <<>>),
     LayoutFrame("legacy", <<RowOf(Date(2), "num"), RowOf(Date(1), "numstr")>>)}

\* Either an existing file of any content with one of the few feeds, or no
\* readable file with a feed of any content
CacheInputs(m) ==
    {[fn |-> "cache", file |-> f, feed |-> s, pc |-> "start", origin |-> "none",
      read_cols |-> <<>>, raw |-> NoFrame, df |-> NoFrame, prev |-> NoFrame,
      written |-> FALSE] :
        f \in {Csv(to_csv(x)) : x \in RawFrames(m)}, s \in FewFeeds}
    \cup
    {[fn |-> "cache", file |-> f, feed |-> s, pc |-> "start", origin |-> "none",
      read_cols |-> <<>>, raw |-> NoFrame, df |-> NoFrame, prev |-> NoFrame,
      written |-> FALSE] :
        f \in {AbsentCsv, CorruptCsv}, s \in RawFrames(m)}

InitCache == InitCall(CacheInputs(MaxRows))

OtherThanCall == <<config, data_dir, tasks, main_pc, done, collected, rows, result_file, ma>>

\* process_one up to the fetch: out_file.exists(), pd.read_csv in its try
CheckCache ==
    /\ call.fn = "cache"
    /\ call.pc = "start"
    /\ call' = IF call.file.kind = "csv"
               THEN [call EXCEPT !.pc = "raw", !.origin = "cache",
                                 !.raw = read_csv(call.file.data),
                                 !.read_cols = call.file.data.cols]
               ELSE [call EXCEPT !.pc = "fetch"]
    /\ UNCHANGED OtherThanCall

\* fetch_daily_df: the provider's frame; `df is None or df.empty` ends it
FetchFeed ==
    /\ call.fn = "cache"
    /\ call.pc = "fetch"
    /\ call' = IF call.feed.rows = <<>>
               THEN [call EXCEPT !.pc = "end", !.origin = "fetch"]
               ELSE [call EXCEPT !.pc = "raw", !.origin = "fetch", !.raw = call.feed]
    /\ UNCHANGED OtherThanCall

\* normalize_daily_df on the frame read or fetched. None after a cache read
\* leads to the fetch and None after a fetch ends the task; an exception
\* after a cache read leaves process_one, one after a fetch is caught and,
\* the provider's answer staying what it is, ends as None.
NormalizeRaw ==
    /\ call.fn = "cache"
    /\ call.pc = "raw"
    /\ \E o \in normalize_outcomes(call.raw) :
         call' = IF o.st = "ok" THEN [call EXCEPT !.pc = "ready", !.df = o.df]
                 ELSE IF call.origin = "cache"
                 THEN [call EXCEPT !.pc = IF o.st = "raise" THEN "raised" ELSE "fetch"]
                 ELSE [call EXCEPT !.pc = "end"]
    /\ UNCHANGED OtherThanCall

\* df.to_csv(out_file, index=False, ...)
PersistCsv ==
    /\ call.fn = "cache"
    /\ call.pc = "ready"
    /\ call.origin \in {"cache", "fetch"}
    /\ call' = [call EXCEPT !.pc = "saved", !.file = Csv(to_csv(call.df)), !.written = TRUE]
    /\ UNCHANGED OtherThanCall

\* normalize_daily_df applied to the frame it returned
Reapply ==
    /\ call.fn = "cache"
    /\ call.pc = "saved"
    /\ call' = [call EXCEPT !.pc = "raw", !.origin = "memory", !.raw = call.df,
                            !.prev = call.df]
    /\ UNCHANGED OtherThanCall

\* The task is over; the next run finds the file as this one left it
NextRun ==
    /\ call.fn = "cache"
    /\ \/ call.pc \in {"saved", "end"}
       \/ call.pc = "ready" /\ call.origin = "memory"
    /\ call' = [call EXCEPT !.pc = "start", !.origin = "none", !.read_cols = <<>>,
                            !.raw = NoFrame, !.df = NoFrame, !.prev = NoFrame]
    /\ UNCHANGED OtherThanCall

NextCache == CheckCache \/ FetchFeed \/ NormalizeRaw \/ PersistCsv \/ Reapply \/ NextRun

SpecCache == InitCache /\ [][NextCache]_vars

\* ------------------------------------------------------ scheduling
\* The steps of task t, and those of main
TaskStep(t) ==
    /\ t \in 1..N
    /\ StartTask(t) \/ CacheCheck(t) \/ FetchCall(t) \/ Sleep(t) \/ Persist(t) \/ Evaluate(t)

MainStep == Submit \/ (\E t \in 1..N : Collect(t)) \/ Aggregate \/ Abort

\* A run over two distinct instruments, from every kind of directory a run
\* over several symbols starts from
InitLive == InitWith({<<1, 2>>}, RunFiles, {0, 1}, 1..MaxWorkers)

\* The threads of the pool and the main thread are scheduled fairly, a
\* provider call returns or raises, and a sleep ends: a step of a task or of
\* main that stays possible is taken.
SpecLive ==
    /\ InitLive
    /\ [][Next]_vars
    /\ \A t \in 1..2 : WF_vars(TaskStep(t))
    /\ WF_vars(MainStep)

\* ================================================================ claims
Unusable == {"empty", "nocols", "norows"}

\* C1 (as stated): after a fetch attempt that raised or returned an empty
\* result, with fewer than retry+1 attempts made, the pipeline is sleeping
\* or fetching again; it ends without a frame only after retry+1 tries.
C1_RetryOnRaiseOrEmpty ==
    \A t \in 1..N :
        tasks[t].last \in {"raise", "empty"} =>
            /\ tasks[t].calls < retry + 1 => tasks[t].pc \in {"sleep", "fetch"}
            /\ tasks[t].pc = "done" => tasks[t].calls = retry + 1

\* C1 (amended): after a provider call that raised, with fewer than retry+1
\* attempts made, the pipeline is sleeping or fetching again, having slept
\* once per failed call, and it ends Unavailable only after retry+1 tries;
\* an empty result ends the pipeline at once with no frame and no verdict,
\* whatever budget is left.
C1_RetryOnRaiseOnly ==
    \A t \in 1..N :
        /\ tasks[t].last = "raise" =>
              /\ tasks[t].calls < retry + 1 =>
                    /\ tasks[t].pc \in {"sleep", "fetch"}
                    /\ tasks[t].pc = "fetch" => tasks[t].sleeps = tasks[t].calls
              /\ tasks[t].pc = "done" =>
                    tasks[t].calls = retry + 1 /\ tasks[t].df = NoDf
        /\ tasks[t].last = "empty" =>
              /\ tasks[t].pc = "done"
              /\ tasks[t].df = NoDf
              /\ tasks[t].result = NoRow
              /\ tasks[t].sleeps = tasks[t].calls - 1

\* A raise was retried after a sleep, and a later empty result ended the
\* pipeline with budget left.
C1_Witness ==
    \E t \in 1..N :
        /\ tasks[t].last = "empty" /\ tasks[t].pc = "done"
        /\ tasks[t].sleeps >= 1
        /\ tasks[t].calls < retry + 1

\* C2: fetch_daily_df makes at most retry+1 provider calls and at most retry
\* sleeps, and can call again only while fewer than retry+1 calls are made;
\* when its calls raise to the end it has made exactly retry+1 calls and
\* retry sleeps, holds no frame, and process_one returns no verdict
\* without raising.
C2_BoundedFetch ==
    \A t \in 1..N :
        /\ tasks[t].calls <= retry + 1
        /\ tasks[t].sleeps <= retry
        /\ tasks[t].pc \in {"fetch", "sleep"} => tasks[t].calls <= retry
        /\ (tasks[t].last = "raise" /\ tasks[t].pc \notin {"fetch", "sleep"}) =>
              /\ tasks[t].calls = retry + 1
              /\ tasks[t].sleeps = retry
              /\ tasks[t].df = NoDf
              /\ tasks[t].result = NoRow
              /\ tasks[t].pc = "done"
              /\ tasks[t].wrote = 0 /\ tasks[t].evals = 0

\* The largest budget was used up by raising calls.
C2_Witness ==
    \E t \in 1..N :
        /\ retry = MaxRetry
        /\ tasks[t].pc = "done" /\ tasks[t].last = "raise"
        /\ tasks[t].calls = MaxRetry + 1 /\ tasks[t].sleeps = MaxRetry

\* C3: after an empty provider result or a fetched frame the normalizer
\* finds unusable, the task is finished with no verdict and slept after no
\* call but the raising ones before; a series the strategy rejects leaves
\* the task finished with no verdict; and a finished task takes no
\* further step (no fetch, no sleep).
C3_StateNoRetryOnUnusable ==
    \A t \in 1..N :
        /\ tasks[t].last \in Unusable =>
              /\ tasks[t].pc = "done"
              /\ tasks[t].result = NoRow
              /\ tasks[t].df = NoDf
              /\ tasks[t].sleeps = tasks[t].calls - 1
        /\ (tasks[t].evals > 0 /\ ~Accepts(tasks[t].df)) =>
              tasks[t].pc = "done" /\ tasks[t].result = NoRow

C3_NoRetryOnUnusable ==
    /\ []C3_StateNoRetryOnUnusable
    /\ [][\A t \in 1..N : tasks[t].pc = "done" => tasks'[t] = tasks[t]]_vars

\* An unusable result ended a pipeline that had attempts left.
C3_Witness ==
    \E t \in 1..N :
        /\ tasks[t].last \in Unusable /\ tasks[t].pc = "done"
        /\ tasks[t].calls <= retry

\* C4 (as stated): a finished task called the provider if and only if the
\* cache was disabled, or there was no cache file, or the cache file
\* failed to load or to normalize into a non-empty series; a cache hit
\* reaches the strategy with no provider call.
CacheFails == {"corrupt", "nocols", "norows", "dupcol"}

C4_FetchIffNoCacheHit ==
    \A t \in 1..N :
        Terminal(t) =>
            /\ tasks[t].calls > 0 <=>
                  (tasks[t].seen = "skipped" \/ tasks[t].seen = "absent"
                   \/ tasks[t].seen \in CacheFails)
            /\ tasks[t].seen \in {"canonical", "legacy"} =>
                  tasks[t].calls = 0 /\ tasks[t].evals = 1

\* C5: a task that is at or past the strategy evaluation has written its
\* cache file exactly once, and the file is there; so has every task that
\* holds a fetched frame and left the fetch, whether the strategy accepted
\* or rejected it.
C5_WriteBeforeEvaluate ==
    \A t \in 1..N :
        /\ (tasks[t].pc = "eval" \/ tasks[t].evals > 0) =>
              /\ tasks[t].wrote = 1
              /\ data_dir[universe[t]].fmt = "canonical"
        /\ (tasks[t].df # NoDf /\ tasks[t].pc = "done") =>
              tasks[t].wrote = 1 /\ tasks[t].evals = 1

\* A fetched series was written and then rejected by the strategy.
C5_Witness ==
    \E t \in 1..N :
        /\ tasks[t].calls >= 1 /\ tasks[t].evals = 1 /\ tasks[t].wrote = 1
        /\ tasks[t].result = NoRow
        /\ data_dir[universe[t]] = File("canonical", tasks[t].df)

\* ------------------------------------------------------------ run claims
Files == {s \in Symbols : data_dir[s] # NoFile}
Distinct == \A i, j \in 1..N : universe[i] = universe[j] => i = j
EmptyDir0 == \A s \in Symbols : dir0[s] = NoFile
Fetched(t) == tasks[t].calls > 0 /\ tasks[t].df # NoDf
Exhausted(t) == tasks[t].pc = "done" /\ tasks[t].last = "raise"

\* The verdicts of the tasks in submission order
RECURSIVE SubmissionRows(_)
SubmissionRows(n) ==
    IF n = 0 THEN <<>>
    ELSE IF tasks[n].result # NoRow
         THEN Append(SubmissionRows(n - 1), tasks[n].result)
         ELSE SubmissionRows(n - 1)

Count(q, x) == Cardinality({i \in 1..Len(q) : q[i] = x})
SameRows(p, q) ==
    /\ Len(p) = Len(q)
    /\ \A i \in 1..Len(p) : Count(p, p[i]) = Count(q, p[i])
Key(r) == <<r.k1, r.k2>>

\* C6: when a run over distinct symbols that started from an empty cache
\* directory is complete, the directory holds a file for exactly the
\* symbols whose fetch gave a normalized frame, a symbol whose retry+1 tries
\* all failed has no file and no verdict, and neither the collected rows
\* nor the written table outnumber the cache files.
C6_FilesAreFetchedSymbols ==
    (main_pc = "done" /\ Distinct /\ EmptyDir0) =>
        /\ \A s \in Symbols :
              s \in Files <=> \E t \in 1..N : universe[t] = s /\ Fetched(t)
        /\ \A t \in 1..N :
              Exhausted(t) =>
                  /\ tasks[t].calls = retry + 1
                  /\ universe[t] \notin Files
                  /\ tasks[t].result = NoRow
                  /\ \A i \in 1..Len(rows) : rows[i].symbol # universe[t]
        /\ Len(rows) <= Cardinality(Files)
        /\ Len(result_file.table) <= Cardinality(Files)

\* One symbol failed on every try, every other symbol was fetched, and the
\* directory holds one file less than there are symbols.
C6_Witness ==
    /\ main_pc = "done" /\ Distinct /\ EmptyDir0
    /\ N = 3
    /\ \E t \in 1..N :
          /\ Exhausted(t) /\ tasks[t].calls = retry + 1
          /\ \A u \in (1..N) \ {t} : Fetched(u)
    /\ Cardinality(Files) = N - 1
    /\ Len(rows) <= N - 1

\* C7 (as stated): a run that ends with no collected row has written an
\* empty table to the result file.
C7_EmptyTableWritten ==
    (main_pc = "done" /\ rows = <<>>) =>
        result_file.written /\ result_file.table = <<>>

\* C7 (amended): a run whose tasks all returned without a verdict ends
\* normally and leaves the result file unwritten; main fails only when a
\* task raised.
C7_EmptyResultNoWrite ==
    /\ (main_pc = "done" /\ rows = <<>>) =>
          /\ ~result_file.written
          /\ \A t \in 1..N : tasks[t].pc = "done" /\ tasks[t].result = NoRow
    /\ main_pc \in {"abort", "crashed"} => \E t \in 1..N : tasks[t].pc = "raised"

\* A run with tasks ended with every series rejected or unavailable.
C7_Witness ==
    /\ main_pc = "done" /\ rows = <<>> /\ N >= 1
    /\ \E t \in 1..N : tasks[t].evals = 1
    /\ ~result_file.written

\* C8 (as stated): the written table is the one the tasks' verdicts give
\* when they arrive in submission order, whatever order they arrived in.
C8_TableIgnoresArrival ==
    (main_pc = "done" /\ result_file.written) =>
        result_file.table = sort_values(SubmissionRows(N))

\* C8 (amended): for every arrival order the written table holds the same
\* rows and the same sequence of sort keys as for arrival in submission
\* order; rows can change places only with rows equal on both sort keys,
\* so with no such tie the table is the same.
C8_TableUpToTies ==
    (main_pc = "done" /\ result_file.written) =>
        LET c == sort_values(SubmissionRows(N))
            tb == result_file.table
        IN /\ SameRows(tb, c)
           /\ \A i \in 1..Len(tb) : Key(tb[i]) = Key(c[i])
           /\ (\A i, j \in 1..Len(c) : Key(c[i]) = Key(c[j]) => c[i] = c[j]) => tb = c

\* Verdicts with different keys arrived in another order than submitted.
C8_Witness ==
    /\ main_pc = "done" /\ result_file.written
    /\ Len(rows) >= 2
    /\ rows # SubmissionRows(N)
    /\ \E i, j \in 1..Len(rows) : Key(rows[i]) # Key(rows[j])
    /\ result_file.table # rows

\* C9: when a task returned a verdict and the run ended normally, the
\* result file is written and holds exactly the verdicts of the tasks, each
\* as often as tasks returned it, in the strategy's order: ma120 by k1
\* ascending then k2 ascending, weekly_chip_breakout by k1 descending then
\* k2 ascending.
C9_TableIsSortedVerdicts ==
    (main_pc = "done" /\ \E t \in 1..N : tasks[t].result # NoRow) =>
        LET tb == result_file.table
        IN /\ result_file.written
           /\ SameRows(tb, SubmissionRows(N))
           /\ \A i \in 1..Len(tb) : tb[i] # NoRow
           /\ \A i, j \in 1..Len(tb) :
                 i < j =>
                    IF strategy = STRATEGY_MA120
                    THEN \/ tb[i].k1 < tb[j].k1
                         \/ (tb[i].k1 = tb[j].k1 /\ tb[i].k2 <= tb[j].k2)
                    ELSE \/ tb[i].k1 > tb[j].k1
                         \/ (tb[i].k1 = tb[j].k1 /\ tb[i].k2 <= tb[j].k2)

\* A weekly_chip_breakout table whose rows differ on the first key, and on
\* the second key within one first key, written from rows that arrived in
\* another order.
C9_Witness ==
    /\ main_pc = "done" /\ result_file.written
    /\ strategy = STRATEGY_WEEKLY_CHIP_BREAKOUT
    /\ Len(result_file.table) = 3
    /\ result_file.table # rows
    /\ \E i, j \in 1..Len(rows) : rows[i].k1 # rows[j].k1
    /\ \E i, j \in 1..Len(rows) : rows[i].k1 = rows[j].k1 /\ rows[i].k2 # rows[j].k2

\* --------------------------------------------------------- ma120 claims
\* The sum of q[lo..hi]: each value times the number of places holding it
RECURSIVE SumOver(_, _, _, _)
SumOver(vals, q, lo, hi) ==
    IF vals = {} THEN 0
    ELSE LET v == CHOOSE x \in vals : TRUE
         IN v * Cardinality({i \in lo..hi : q[i] = v}) + SumOver(vals \ {v}, q, lo, hi)

SumRange(q, lo, hi) == SumOver({q[i] : i \in lo..hi}, q, lo, hi)

Example85 == [i \in 1..120 |-> IF i = 120 THEN 85 ELSE 100]

\* C10: evaluate_ma120 accepts exactly when the series has at least 120
\* bars, the valuation ratio is present with 0 < r < max_pe, and the latest
\* close is strictly below 0.88 times the mean of the last 120 closes
\* (100 * 120 * close < 88 * their sum); closes [100]*119+[85] with max 20
\* are accepted with r = 15 and rejected with r = 25.
C10_Ma120AcceptIff ==
    ma.out # "none" =>
        LET c == ma.closes
            n == Len(c)
        IN /\ ma.out = "accept" <=>
                 /\ n >= 120
                 /\ ma.pe.present /\ 0 < ma.pe.v /\ ma.pe.v < ma.max_pe
                 /\ 100 * 120 * c[n] < 88 * SumRange(c, n - 119, n)
           /\ (c = Example85 /\ ma.max_pe = 20 /\ ma.pe.present) =>
                 /\ ma.pe.v = 15 => ma.out = "accept"
                 /\ ma.pe.v = 25 => ma.out = "reject"

\* A series with an admissible ratio whose latest close is exactly 0.88
\* times the mean of its last 120 closes was evaluated, and rejected.
C10_Witness ==
    /\ ma.out = "reject"
    /\ Len(ma.closes) > 120
    /\ ma.pe.present /\ 0 < ma.pe.v /\ ma.pe.v < ma.max_pe
    /\ 100 * 120 * ma.closes[Len(ma.closes)]
          = 88 * SumRange(ma.closes, Len(ma.closes) - 119, Len(ma.closes))

\* C12: for one list of values and weights with at least one positive weight
\* on a present value, and levels q1 <= q2 in [0,1], both calls return a
\* number and weighted_quantile at q1 is at most weighted_quantile at q2.
C12_QuantileMonotone ==
    (/\ call.fn = "weighted_quantile"
     /\ call.called = <<TRUE, TRUE>>
     /\ call.q[1] <= call.q[2]
     /\ \E i \in 1..Len(call.values) :
            /\ call.values[i].k = "num"
            /\ call.weights[i].k = "num"
            /\ call.weights[i].x > 0)
    => /\ call.out[1].k = "num"
       /\ call.out[2].k = "num"
       /\ call.out[1].x <= call.out[2].x

\* Values given in descending order, and two levels that pick different ones
C12_Witness ==
    /\ call.fn = "weighted_quantile"
    /\ call.called = <<TRUE, TRUE>>
    /\ call.values = <<Num(3), Num(1), Num(2)>>
    /\ call.weights = <<Num(1), Num(1), Num(1)>>
    /\ call.q = <<35, 65>>
    /\ call.out = <<Num(2), Num(2)>>

\* The upper edge of the chip zone of the weekly bars W, stated directly: the
\* least close of the base window (the 48 weeks that end 4 weeks before the
\* latest) such that the weeks closing at or below it carry at least 65% of
\* the window's volume.
RECURSIVE VolumeBy(_, _, _)
VolumeBy(W, vols, S) ==
    IF vols = {} THEN 0
    ELSE LET v == CHOOSE x \in vols : TRUE
         IN v * Cardinality({i \in S : W[i].volume = v}) + VolumeBy(W, vols \ {v}, S)
VolumeOf(W, S) == VolumeBy(W, {W[i].volume : i \in S}, S)
ZoneHigh(W) ==
    LET BaseWeeks == {i \in 1..Len(W) : i >= Len(W) - 51 /\ i <= Len(W) - 4}
        total == VolumeOf(W, BaseWeeks)
        closes == {W[i].close : i \in BaseWeeks}
    IN Min({c \in closes :
              VolumeOf(W, {h \in BaseWeeks : W[h].close <= c}) * 100 >= 65 * total})

\* The touch attempts: the weeks among the 13 before the latest whose high
\* is at least 0.98 * zone_high and whose close is at most 1.01 * zone_high
TouchAttempts(W, zh) ==
    Cardinality({i \in 1..Len(W) :
        /\ i >= Len(W) - 13 /\ i <= Len(W) - 1
        /\ W[i].high * 100 >= 98 * zh
        /\ W[i].close * 100 <= 101 * zh})

\* C11: evaluate_weekly_chip_breakout accepts only with exactly 2 or 3 touch
\* attempts, which it reports; with 0, 1, 4, 5 or more it rejects whatever
\* the latest two weeks look like.
C11_AcceptNeedsTwoOrThreeTouches ==
    (call.fn = "evaluate_weekly_chip_breakout" /\ call.called)
    => LET W == resample(call.df)
       IN Len(W) >= 60 =>
          LET zh == ZoneHigh(W)
              n == TouchAttempts(W, zh)
          IN /\ call.out.st = "accept" =>
                  /\ n \in {2, 3}
                  /\ call.out.attempts = n
                  /\ call.out.chip_zone_high = zh
             /\ n \notin {2, 3} => call.out.st = "reject"

\* A series accepted with three touch attempts
C11_Witness ==
    /\ call.fn = "evaluate_weekly_chip_breakout"
    /\ call.called
    /\ call.out.st = "accept"
    /\ call.out.attempts = 3
    /\ LET W == resample(call.df) IN TouchAttempts(W, ZoneHigh(W)) = 3

\* C17: evaluate_weekly_chip_breakout accepts only if the latest weekly bar
\* closes above 1.01 * zone_high with a high above zone_high and the weekly
\* bar before it closed at or below 1.01 * zone_high; a series whose
\* preceding week already closed above 1.01 * zone_high is rejected.
C17_BreakoutIsFresh ==
    (call.fn = "evaluate_weekly_chip_breakout" /\ call.called)
    => LET W == resample(call.df)
       IN Len(W) >= 60 =>
          LET zh == ZoneHigh(W)
              latest == W[Len(W)]
              prev == W[Len(W) - 1]
          IN /\ call.out.st = "accept" =>
                  /\ latest.close * 100 > 101 * zh
                  /\ latest.high > zh
                  /\ prev.close * 100 <= 101 * zh
             /\ prev.close * 100 > 101 * zh => call.out.st = "reject"

\* A series rejected although the chip zone is narrow and holds all the
\* volume, there are 2 or 3 touch attempts and the latest week breaks out:
\* the week before had closed above 1.01 * zone_high.
C17_Witness ==
    /\ call.fn = "evaluate_weekly_chip_breakout"
    /\ call.called
    /\ call.out.st = "reject"
    /\ LET W == resample(call.df)
           zh == ZoneHigh(W)
       IN /\ Len(W) >= 60
          /\ zh = 104
          /\ \A i \in 1..(Len(W) - 2) : W[i].close \in {100, 104}
          /\ TouchAttempts(W, zh) \in {2, 3}
          /\ W[Len(W)].close * 100 > 101 * zh
          /\ W[Len(W)].high > zh
          /\ W[Len(W) - 1].close * 100 > 101 * zh

\* The rows of a are the rows of b in some order
Permuted(a, b) ==
    /\ Len(a) = Len(b)
    /\ \E p \in [1..Len(a) -> 1..Len(a)] :
          /\ \A i, j \in 1..Len(a) : i # j => p[i] # p[j]
          /\ \A i \in 1..Len(a) : a[i] = b[p[i]]

AscendingDates(rs) == \A i, j \in 1..Len(rs) : i < j => rs[i][1].x <= rs[j][1].x
DistinctDates(rs) == \A i, j \in 1..Len(rs) : i # j => rs[i][1].x # rs[j][1].x

CanonicalCsv(file) ==
    /\ file.kind = "csv"
    /\ file.data.cols = <<"date", "open", "high", "low", "close", "volume">>
    /\ file.data.rows # <<>>
    /\ \A i \in 1..Len(file.data.rows) :
          /\ Len(file.data.rows[i]) = 6
          /\ file.data.rows[i][1].k = "datestr"
          /\ \A j \in 2..6 : file.data.rows[i][j].k = "numstr"
    /\ AscendingDates(file.data.rows)

C14_WrittenFileCanonical == call.fn = "cache" /\ call.written => CanonicalCsv(call.file)

C14_HitIsRewritten ==
    (call.fn = "cache" /\ call.pc = "ready" /\ call.origin = "cache")
    => call'.pc = "saved" /\ call'.written /\ CanonicalCsv(call'.file)

\* C14, for one symbol with one task per run: over any sequence of runs, a
\* cache file the pipeline has written is in canonical form, and a task that
\* has read a usable series from the cache file, whatever the file's format,
\* next rewrites the file in canonical form.
C14_CacheFilesCanonical == []C14_WrittenFileCanonical /\ [][C14_HitIsRewritten]_vars

\* A file with the provider's labels was read on a cache hit and has been
\* rewritten, by the same task, with two rows in canonical form
C14_Witness ==
    /\ call.fn = "cache"
    /\ call.pc = "saved"
    /\ call.origin = "cache"
    /\ call.read_cols[1] = "riqi"
    /\ Len(call.file.data.rows) = 2
    /\ CanonicalCsv(call.file)

\* Task t has read its cache file or written it
Accessed(t) ==
    \/ tasks[t].seen \notin {"unchecked", "skipped", "absent"}
    \/ tasks[t].wrote > 0

\* C15: in every interleaving of the tasks of a run, over every universe
\* list, no two tasks read or write the same cache file.
C15_OneTaskPerFile ==
    \A t, u \in 1..N :
        (t # u /\ Accessed(t) /\ Accessed(u)) => universe[t] # universe[u]

\* What a task has written so far: once it holds a usable series and is past
\* the write, its own file, once, with that series; otherwise nothing, and a
\* task that ended without a series or raised has left its file as found.
C18_WritesIffUsable ==
    \A t \in 1..N :
        /\ tasks[t].wrote <= 1
        /\ tasks[t].wrote = 1 <=> (tasks[t].df # NoDf /\ tasks[t].pc \in {"eval", "done"})
        /\ tasks[t].wrote = 1 => data_dir[universe[t]] = File("canonical", tasks[t].df)
        /\ tasks[t].wrote = 0 => data_dir[universe[t]] = dir0[universe[t]]
        /\ (tasks[t].pc \in {"done", "raised"} /\ tasks[t].df = NoDf) => tasks[t].wrote = 0

\* A step changes a file only as the task of that symbol's one write
C18_OnlyOwnFile ==
    \A s \in Symbols :
        data_dir'[s] # data_dir[s] =>
            \E t \in 1..N : /\ universe[t] = s
                            /\ tasks[t].pc = "persist"
                            /\ tasks[t].wrote = 0
                            /\ tasks'[t].wrote = 1

\* C18: a process_one task writes its own symbol's cache file at most once
\* and no other file; it writes exactly when it obtains a usable series,
\* from a cache hit as from a fetch; a task that ends Unavailable creates no
\* file and leaves an existing file of its symbol unchanged.
C18_TaskWritesOwnFileOnce == []C18_WritesIffUsable /\ [][C18_OnlyOwnFile]_vars

\* A task found a cache file without the required columns, fetched, ran out
\* of attempts and ended Unavailable; the file is as the run found it
C18_Witness ==
    \E t \in 1..N :
        /\ tasks[t].pc = "done"
        /\ tasks[t].seen = "nocols"
        /\ tasks[t].calls = retry + 1
        /\ tasks[t].calls > 1
        /\ tasks[t].df = NoDf
        /\ tasks[t].wrote = 0
        /\ data_dir[universe[t]] = File("nocols", 0)

\* C19: in fetch_daily_df an exception raised while normalizing the fetched
\* frame goes the way of a provider exception: with attempts left the task
\* sleeps and fetches again, and it ends without a frame only after retry+1
\* calls; a normalization that returns None ends the fetch at once, without
\* a frame, whatever attempts are left; and no task that has called the
\* provider has raised.
C19_NormalizeRaiseIsRetried ==
    \A t \in 1..N :
        /\ tasks[t].last = "dupcol" =>
              /\ attempts_remain(tasks[t].calls) =>
                    /\ tasks[t].pc \in {"sleep", "fetch"}
                    /\ tasks[t].pc = "sleep" => tasks[t].sleeps = tasks[t].calls - 1
                    /\ tasks[t].pc = "fetch" => tasks[t].attempt = tasks[t].calls + 1
              /\ ~attempts_remain(tasks[t].calls) =>
                    tasks[t].pc = "done" /\ tasks[t].df = NoDf /\ tasks[t].result = NoRow
        /\ tasks[t].last \in {"nocols", "norows"} =>
              /\ tasks[t].pc = "done"
              /\ tasks[t].df = NoDf
              /\ tasks[t].sleeps = tasks[t].calls - 1
        /\ tasks[t].calls > 0 => tasks[t].pc # "raised"

\* With a budget of at least one retry, every call was followed by a sleep
\* but the last, whose frame the normalizer raised on: the task ended
\* without a frame and without raising
C19_Witness ==
    \E t \in 1..N :
        /\ retry >= 1
        /\ tasks[t].last = "dupcol"
        /\ tasks[t].pc = "done"
        /\ tasks[t].calls = retry + 1
        /\ tasks[t].sleeps = retry

\* The pool at any time: one task per row of the list once submitted, at
\* most `workers` of them executing, one collection per completed task, and
\* a queued task can start whenever a worker is free, whatever the running
\* tasks are doing.
C16_PoolBounded ==
    /\ main_pc # "submit" => \A t \in 1..N : tasks[t].pc # "new"
    /\ Cardinality({t \in 1..N : Running(t)}) <= workers
    /\ done = Cardinality(collected)
    /\ \A t \in collected : Terminal(t)
    /\ ((\E t \in 1..N : tasks[t].pc = "queued")
            /\ Cardinality({t \in 1..N : Running(t)}) < workers)
          => ENABLED (\E t \in 1..N : StartTask(t))

\* Every task has completed, each has been collected once and main is past
\* the aggregation
C16_Aggregated ==
    /\ main_pc = "done"
    /\ \A t \in 1..N : tasks[t].pc = "done"
    /\ collected = 1..N
    /\ done = N

\* C16: with a pool of W >= 1 workers one task is dispatched per instrument
\* and at most W execute at any time; under fair scheduling, with provider
\* calls that return or raise, every task completes, main collects one
\* completion per instrument and the run reaches the aggregation; a worker
\* inside a provider call does not keep the others from taking queued tasks.
C16_PoolRunsToAggregation == []C16_PoolBounded /\ <>C16_Aggregated

\* C14 (as stated): when a run has ended, every cache file that one of its
\* tasks has written is in canonical form.
C14_RunFilesCanonical ==
    main_pc = "done" =>
        \A t \in 1..N : tasks[t].wrote > 0 => data_dir[universe[t]].fmt = "canonical"

====
